---- MODULE Spec2Model ----
(***************************************************************************)
(* Model of the telemetry aggregator: the RCU store (AggregatorStore), the *)
(* CSV parser (parse_csv_data), the retry wrapper (retry_with_backoff),    *)
(* the ingestion worker (ingestion_task) and the API handlers.             *)
(*                                                                         *)
(* Text is a sequence of tokens.  A token is either one separator          *)
(* character (comma, newline, space), one escaped line break as the tests  *)
(* write it (backslash-n, backslash-r), or a whole word ("switch_id",      *)
(* "m1", "A", ...) that contains none of those.  Quotes and carriage       *)
(* returns are outside the alphabet.                                       *)
(*                                                                         *)
(* The worker is an asyncio task: it only gives up control at the awaits   *)
(* that really suspend (the HTTP get, the backoff sleep, the interval      *)
(* sleep), so each worker action is the code between two suspensions.      *)
(***************************************************************************)
EXTENDS Integers, Sequences, FiniteSets, TLC

\* ------------------------------------------------------------------------
\* Tokens
\* ------------------------------------------------------------------------
Comma == ","
Newline == "\n"
Space == " "
EscNewline == "\\n"
EscReturn == "\\r"
SwitchIdColumn == "switch_id"

Whitespace == {Space, Newline}

\* ------------------------------------------------------------------------
\* String helpers of the parser
\* ------------------------------------------------------------------------

\* str.strip(): drop leading and trailing whitespace.
RECURSIVE LStrip(_)
LStrip(s) ==
    IF s # <<>> /\ Head(s) \in Whitespace THEN LStrip(Tail(s)) ELSE s

RECURSIVE RStrip(_)
RStrip(s) ==
    IF s # <<>> /\ s[Len(s)] \in Whitespace
    THEN RStrip(SubSeq(s, 1, Len(s) - 1))
    ELSE s

Strip(s) == RStrip(LStrip(s))

IsPrefix(p, s) == Len(p) <= Len(s) /\ SubSeq(s, 1, Len(p)) = p

\* str.replace(old, new): leftmost non-overlapping occurrences.
RECURSIVE Replace(_, _, _)
Replace(s, old, new) ==
    IF s = <<>> THEN <<>>
    ELSE IF IsPrefix(old, s)
         THEN new \o Replace(SubSeq(s, Len(old) + 1, Len(s)), old, new)
         ELSE <<Head(s)>> \o Replace(Tail(s), old, new)

Normalize(csv_content) ==
    Replace(Replace(Replace(csv_content,
                            <<EscReturn, EscNewline>>, <<Newline>>),
                    <<EscNewline>>, <<Newline>>),
            <<EscReturn>>, <<>>)

\* Split s at every occurrence of sep; always yields at least one piece.
RECURSIVE SplitOn(_, _, _)
SplitOn(s, sep, cur) ==
    IF s = <<>> THEN <<cur>>
    ELSE IF Head(s) = sep
         THEN <<cur>> \o SplitOn(Tail(s), sep, <<>>)
         ELSE SplitOn(Tail(s), sep, Append(cur, Head(s)))

\* csv.reader over StringIO(text): one row per line, an empty line is the
\* empty row, and a final line break opens no further row.
CsvReader(text) ==
    LET lines == SplitOn(text, Newline, <<>>)
        kept == IF lines[Len(lines)] = <<>>
                THEN SubSeq(lines, 1, Len(lines) - 1)
                ELSE lines
    IN  [i \in 1..Len(kept) |->
            IF kept[i] = <<>> THEN <<>> ELSE SplitOn(kept[i], Comma, <<>>)]

\* list.index(x): the first position of x.
IndexOf(row, x) == CHOOSE i \in 1..Len(row) : row[i] = x /\ \A j \in 1..(i - 1) : row[j] # x

EmptyDict == [k \in {} |-> <<>>]

\* d[key] = value on a dict held as a function.
DictSet(d, key, value) ==
    [k \in DOMAIN d \cup {key} |-> IF k = key THEN value ELSE d[k]]

\* The inner loop of parse_csv_data: column name -> field, skipping the
\* switch_id column; a repeated column name keeps the later field.
RECURSIVE RowMetrics(_, _, _, _)
RowMetrics(header, row, switch_idx, idx) ==
    IF idx = 0 THEN EmptyDict
    ELSE LET before == RowMetrics(header, row, switch_idx, idx - 1)
         IN  IF idx = switch_idx THEN before
             ELSE DictSet(before, header[idx], row[idx])

\* Variant of the row loop that skips a row of the wrong length instead
\* of raising.
parse_rows_skip_bad(header, rows, switch_idx, result) ==
    LET good == SelectSeq(rows, LAMBDA row : Len(row) = Len(header))
        RECURSIVE Fold(_, _)
        Fold(rs, acc) ==
            IF rs = <<>> THEN acc
            ELSE Fold(Tail(rs),
                      DictSet(acc, Strip(Head(rs)[switch_idx]),
                              RowMetrics(header, Head(rs), switch_idx, Len(header))))
    IN  [kind |-> "dict", value |-> Fold(good, result)]

\* The outer loop of parse_csv_data over the data rows, first row first.
RECURSIVE ParseRows(_, _, _, _)
ParseRows(header, rows, switch_idx, result) ==
    IF rows = <<>> THEN [kind |-> "dict", value |-> result]
    ELSE LET row == Head(rows)
         IN  IF Len(row) # Len(header)
             THEN [kind |-> "ValueError", value |-> "Row has an incorrect number of fields."]
             ELSE ParseRows(header, Tail(rows), switch_idx,
                            DictSet(result, Strip(row[switch_idx]),
                                    RowMetrics(header, row, switch_idx, Len(header))))

\* Variant of parse_csv_data without the strip() test at its top.
parse_csv_data_no_strip(csv_content) ==
    LET rows == CsvReader(Normalize(csv_content))
    IN  IF rows = <<>> THEN [kind |-> "dict", value |-> EmptyDict]
        ELSE LET header == rows[1]
             IN  IF ~(\E i \in 1..Len(header) : header[i] = <<SwitchIdColumn>>)
                 THEN [kind |-> "ValueError",
                       value |-> "CSV missing required 'switch_id' column."]
                 ELSE ParseRows(header, Tail(rows),
                                IndexOf(header, <<SwitchIdColumn>>), EmptyDict)

\* parse_csv_data: [kind |-> "dict", value |-> mapping] when it returns,
\* [kind |-> "ValueError", ...] when it raises.
parse_csv_data(csv_content) ==
    IF Strip(csv_content) = <<>> THEN [kind |-> "dict", value |-> EmptyDict]
    ELSE LET rows == CsvReader(Normalize(csv_content))
         IN  IF rows = <<>> THEN [kind |-> "dict", value |-> EmptyDict]
             ELSE LET header == rows[1]
                  IN  IF ~(\E i \in 1..Len(header) : header[i] = <<SwitchIdColumn>>)
                      THEN [kind |-> "ValueError",
                            value |-> "CSV missing required 'switch_id' column."]
                      ELSE ParseRows(header, Tail(rows),
                                     IndexOf(header, <<SwitchIdColumn>>), EmptyDict)

\* ------------------------------------------------------------------------
\* Configuration and bounds
\* ------------------------------------------------------------------------
INGESTION_INTERVAL_SECONDS == 10
retries == 3
backoff_in_seconds == 1

\* Cycles the worker may start, and /metrics requests served, in one run.
MaxCycles == 3
MaxQueries == 1

\* Texts given to parse_csv_data directly: every text of at most MaxLen
\* tokens over the alphabet.
MaxLen == 5
Alphabet == {SwitchIdColumn, "m1", Comma, Newline, Space, EscNewline}
Inputs == UNION {[1..n -> Alphabet] : n \in 0..MaxLen}

\* Upstream payloads offered to the worker.
PayloadEmpty == <<>>
PayloadHeaderOnly == <<SwitchIdColumn, Comma, "m1">>
PayloadA == <<SwitchIdColumn, Comma, "m1", EscNewline, "A", Comma, "1">>
PayloadB == <<SwitchIdColumn, Comma, "m1", Newline, "B", Comma, "2", Newline>>
PayloadNoId == <<"m1", Comma, "m2", Newline, "A", Comma, "1">>
PayloadShortRow == <<SwitchIdColumn, Comma, "m1", Newline, "A", Comma, "1", Newline, "B">>

Payloads == {PayloadEmpty, PayloadHeaderOnly, PayloadA, PayloadB,
             PayloadNoId, PayloadShortRow}

\* What one `await http_client.get(...)` plus raise_for_status() can yield:
\* a transport exception, a non-2xx status, or a 2xx response with a body.
NetworkKinds == {"transport", "status"}
FetchOutcomes ==
    {[kind |-> k, text |-> <<>>] : k \in NetworkKinds}
        \cup {[kind |-> "ok", text |-> p] : p \in Payloads}

\* Measured latencies, in milliseconds.
LatenciesMs == {1}

\* Path parameters tried against GetMetric.
SwitchIds == {<<"A">>, <<"B">>}
MetricIds == {<<"m1">>, <<"m2">>}

\* parse_csv_data on each offered payload, computed once.
Parsed == [p \in Payloads |-> parse_csv_data(p)]

None == [kind |-> "None"]
NoResponse == [endpoint |-> "none"]
NoFetch == [kind |-> "none", text |-> <<>>]
NoEnd == [cycle |-> 0, phase |-> "none", result |-> "none"]
NotCalled == [kind |-> "not_called"]

VARIABLES
    heap,           \* the dict objects alive: object id -> contents
    current_data,   \* AggregatorStore.current_data: an object id
    metrics,        \* AggregatorStore.metrics
    pc,             \* where ingestion_task is suspended
    phase,          \* "startup" (initial load) or "loop" (while True)
    attempt,        \* wrapper's local `attempt`
    sleeping_for,   \* the delay of the asyncio.sleep in progress
    swap_lock,      \* AggregatorStore.swap_lock is held
    shut_down,      \* shutdown_event has run
    held,           \* the reference a reader got from get_data()
    response,       \* the response of the handler that ran in this step
    cycle,          \* history: cycles started so far
    last_fetch,     \* history: outcome of the latest fetch attempt
    ended,          \* history: how the latest finished cycle ended
    failed_cycles,  \* history: cycles that ended in failure
    publishes,      \* history: calls of _swap_data
    last_published, \* history: the argument of the latest _swap_data
    held_copy,      \* history: contents of `held` when it was read
    waited,         \* history: backoff delays slept in the current cycle
    parse_input,    \* the text a direct call of parse_csv_data is given
    parse_output    \* what that call returned or raised

vars == <<heap, current_data, metrics, pc, phase, attempt, sleeping_for,
          shut_down, held, response, cycle, last_fetch, ended,
          failed_cycles, publishes, last_published, held_copy, swap_lock,
          waited, parse_input, parse_output>>

store_vars == <<heap, current_data, metrics, swap_lock>>
worker_vars == <<pc, phase, attempt, sleeping_for, cycle, last_fetch, ended,
                 failed_cycles, publishes, last_published, waited>>
reader_vars == <<held, held_copy>>
parser_vars == <<parse_input, parse_output>>

\* ------------------------------------------------------------------------
\* AggregatorStore
\* ------------------------------------------------------------------------
InitialMetrics ==
    [ingestion_success_total |-> 0,
     ingestion_failure_total |-> 0,
     last_ingestion_latency_ms |-> 0,
     last_parse_latency_ms |-> 0,
     api_query_count |-> 0,
     last_successful_ingestion_timestamp |-> 0,
     is_ready |-> FALSE]

\* get_data(): the current reference itself, no copy.
get_data(cur) == cur

\* update_metrics(key, value)
update_metrics(m, key, value) == [m EXCEPT ![key] = value]

\* A fresh object id for a dict the parser builds.
NewId(h) == CHOOSE n \in 1..(Cardinality(DOMAIN h) + 1) : n \notin DOMAIN h

\* Variant of _swap_data that writes the new entries into the current dict
\* (current_data.update(new_snapshot)) instead of replacing the reference.
swap_data_in_place(h, cur, m, new_snapshot, now) ==
    [heap |-> [h EXCEPT ![cur] =
                  [k \in DOMAIN h[cur] \cup DOMAIN new_snapshot |->
                      IF k \in DOMAIN new_snapshot THEN new_snapshot[k] ELSE h[cur][k]]],
     current_data |-> cur,
     swap_lock |-> FALSE,
     metrics |-> update_metrics(m, "last_successful_ingestion_timestamp", now)]

\* _swap_data(new_snapshot): the new dict becomes an object of its own and
\* current_data is pointed at it; no existing object is written.  `now` is
\* int(time.time()).  The body of `async with self.swap_lock` has no await,
\* so the lock is released again when the call is over.
_swap_data(h, cur, m, new_snapshot, now) ==
    LET id == NewId(h)
    IN  [heap |-> [o \in DOMAIN h \cup {id} |->
                      IF o = id THEN new_snapshot ELSE h[o]],
         current_data |-> id,
         swap_lock |-> FALSE,
         metrics |-> update_metrics(m, "last_successful_ingestion_timestamp", now)]

\* Objects no reference reaches any more are freed.
Collect(h, roots) == [o \in (DOMAIN h) \cap roots |-> h[o]]

\* ------------------------------------------------------------------------
\* fetch_and_parse_telemetry and its retry wrapper
\* ------------------------------------------------------------------------

\* Variant of fetch_and_parse_telemetry without raise_for_status(): the
\* body of a non-2xx response is parsed like any other.
fetch_and_parse_unchecked_status(outcome, m, fetch_ms, parse_ms) ==
    IF outcome.kind = "transport"
    THEN [raised |-> TRUE, ret |-> None, metrics |-> m]
    ELSE LET parsed == Parsed[outcome.text]
         IN  IF parsed.kind = "ValueError"
             THEN [raised |-> FALSE, ret |-> None,
                   metrics |-> update_metrics(m, "ingestion_failure_total",
                                              m.ingestion_failure_total + 1)]
             ELSE [raised |-> FALSE, ret |-> parsed,
                   metrics |-> update_metrics(
                                  update_metrics(m, "last_ingestion_latency_ms", fetch_ms),
                                  "last_parse_latency_ms", parse_ms)]

\* Variant of fetch_and_parse_telemetry whose ValueError handler returns an
\* empty dict instead of None.
fetch_and_parse_empty_on_error(outcome, m, fetch_ms, parse_ms) ==
    IF outcome.kind \in NetworkKinds
    THEN [raised |-> TRUE, ret |-> None, metrics |-> m]
    ELSE LET parsed == Parsed[outcome.text]
         IN  IF parsed.kind = "ValueError"
             THEN [raised |-> FALSE, ret |-> [kind |-> "dict", value |-> EmptyDict],
                   metrics |-> update_metrics(m, "ingestion_failure_total",
                                              m.ingestion_failure_total + 1)]
             ELSE [raised |-> FALSE, ret |-> parsed,
                   metrics |-> update_metrics(
                                  update_metrics(m, "last_ingestion_latency_ms", fetch_ms),
                                  "last_parse_latency_ms", parse_ms)]

\* Variant of fetch_and_parse_telemetry without the try around the parser:
\* the ValueError leaves the function and reaches the wrapper.
fetch_and_parse_uncaught_error(outcome, m, fetch_ms, parse_ms) ==
    IF outcome.kind \in NetworkKinds
    THEN [raised |-> TRUE, ret |-> None, metrics |-> m]
    ELSE LET parsed == Parsed[outcome.text]
         IN  IF parsed.kind = "ValueError"
             THEN [raised |-> TRUE, ret |-> None, metrics |-> m]
             ELSE [raised |-> FALSE, ret |-> parsed,
                   metrics |-> update_metrics(
                                  update_metrics(m, "last_ingestion_latency_ms", fetch_ms),
                                  "last_parse_latency_ms", parse_ms)]

\* The body of fetch_and_parse_telemetry on one fetch outcome: either an
\* exception leaves it (raised) or it returns None or the parsed dict.
fetch_and_parse_telemetry(outcome, m, fetch_ms, parse_ms) ==
    IF outcome.kind \in NetworkKinds
    THEN [raised |-> TRUE, ret |-> None, metrics |-> m]
    ELSE LET parsed == Parsed[outcome.text]
         IN  IF parsed.kind = "ValueError"
             THEN [raised |-> FALSE, ret |-> None,
                   metrics |-> update_metrics(m, "ingestion_failure_total",
                                              m.ingestion_failure_total + 1)]
             ELSE [raised |-> FALSE, ret |-> parsed,
                   metrics |-> update_metrics(
                                  update_metrics(m, "last_ingestion_latency_ms", fetch_ms),
                                  "last_parse_latency_ms", parse_ms)]

RECURSIVE Pow2(_)
Pow2(n) == IF n = 0 THEN 1 ELSE 2 * Pow2(n - 1)

\* Variant of wrapper_except whose delay grows by the base each time
\* instead of doubling.
wrapper_except_linear(att) ==
    LET a == att + 1
    IN  IF a > retries
        THEN [attempt |-> a, reraise |-> TRUE, delay |-> 0]
        ELSE [attempt |-> a, reraise |-> FALSE, delay |-> backoff_in_seconds * a]

\* wrapper's except branch, entered with the local `attempt`: count the
\* failure, then re-raise or sleep the backoff delay.
wrapper_except(att) ==
    LET a == att + 1
    IN  IF a > retries
        THEN [attempt |-> a, reraise |-> TRUE, delay |-> 0]
        ELSE [attempt |-> a, reraise |-> FALSE,
              delay |-> backoff_in_seconds * Pow2(a - 1)]

\* `if initial_snapshot:` of the initial load.
InitialLoadPublishes(ret) == ret.kind = "dict" /\ ret.value # EmptyDict

\* `if new_snapshot is not None:` of the loop.
LoopPublishes(ret) == ret.kind # "None"

\* int(time.time()), read as the number of cycles started so far.
Now == cycle

\* Variant of the loop's handler that marks the service not ready.
loop_except_unready(m) == update_metrics(m, "is_ready", FALSE)

\* `except Exception: pass` of the loop: what it does to the metrics.
loop_except(m) == m

\* Variant of the loop without its try: the exception ends the task.
after_reraise_uncaught(ph) == "dead"

\* Where an exception that leaves the wrapper takes the task: the initial
\* load has no handler around it, the loop's try catches it and goes on to
\* the interval sleep.
after_reraise(ph) == IF ph = "startup" THEN "dead" ELSE "sleep"

\* Ground truth about a fetch attempt: it failed if the network failed or
\* the parser raised on the body.
AttemptFailed(o) ==
    \/ o.kind \in NetworkKinds
    \/ o.kind = "ok" /\ Parsed[o.text].kind = "ValueError"

Roots(cur, h) == {cur} \cup (IF h = 0 THEN {} ELSE {h})

\* ------------------------------------------------------------------------
\* Initial state: the module has been imported, no task runs yet.
\* ------------------------------------------------------------------------
ModuleLoaded ==
    /\ heap = (1 :> EmptyDict)
    /\ current_data = 1
    /\ metrics = InitialMetrics
    /\ pc = "not_started"
    /\ phase = "startup"
    /\ attempt = 0
    /\ sleeping_for = 0
    /\ shut_down = FALSE
    /\ held = 0
    /\ response = NoResponse
    /\ cycle = 0
    /\ last_fetch = NoFetch
    /\ ended = NoEnd
    /\ failed_cycles = 0
    /\ publishes = 0
    /\ last_published = EmptyDict
    /\ held_copy = EmptyDict
    /\ swap_lock = FALSE
    /\ waited = 0

Init ==
    /\ ModuleLoaded
    /\ parse_input = <<>>
    /\ parse_output = NotCalled

\* ------------------------------------------------------------------------
\* The ingestion worker
\* ------------------------------------------------------------------------

\* Variant of startup_event that creates a task again while one is running.
startup_event_respawn ==
    /\ pc \in {"not_started", "fetch", "backoff"}
    /\ pc' = "fetch"
    /\ cycle' = 1
    /\ response' = NoResponse
    /\ UNCHANGED parser_vars
    /\ UNCHANGED <<store_vars, phase, attempt, sleeping_for, shut_down,
                   reader_vars, last_fetch, ended, failed_cycles, publishes,
                   last_published, waited>>

\* startup_event: create the task; it runs up to its first await, the get
\* of the initial load.
startup_event ==
    /\ pc = "not_started"
    /\ pc' = "fetch"
    /\ cycle' = 1
    /\ response' = NoResponse
    /\ UNCHANGED parser_vars
    /\ UNCHANGED <<store_vars, phase, attempt, sleeping_for, shut_down,
                   reader_vars, last_fetch, ended, failed_cycles, publishes,
                   last_published, waited>>

\* The awaited get ends and an exception leaves fetch_and_parse_telemetry:
\* the wrapper counts the attempt and either sleeps the backoff delay or
\* re-raises into ingestion_task.
FetchRaises ==
    /\ pc = "fetch"
    /\ \E o \in FetchOutcomes, fetch_ms \in LatenciesMs, parse_ms \in LatenciesMs :
         LET r == fetch_and_parse_telemetry(o, metrics, fetch_ms, parse_ms)
             w == wrapper_except(attempt)
         IN  /\ r.raised
             /\ last_fetch' = o
             /\ attempt' = w.attempt
             /\ IF w.reraise
                THEN /\ pc' = after_reraise(phase)
                     /\ sleeping_for' = IF after_reraise(phase) = "sleep"
                                        THEN INGESTION_INTERVAL_SECONDS ELSE 0
                     /\ metrics' = IF after_reraise(phase) = "sleep"
                                   THEN loop_except(r.metrics) ELSE r.metrics
                     /\ ended' = [cycle |-> cycle, phase |-> phase, result |-> "raised"]
                     /\ failed_cycles' = failed_cycles + (IF AttemptFailed(o) THEN 1 ELSE 0)
                ELSE /\ pc' = "backoff"
                     /\ sleeping_for' = w.delay
                     /\ metrics' = r.metrics
                     /\ UNCHANGED <<ended, failed_cycles>>
    /\ response' = NoResponse
    /\ UNCHANGED parser_vars
    /\ UNCHANGED <<heap, current_data, swap_lock, phase, shut_down, reader_vars,
                   cycle, publishes, last_published, waited>>

\* The awaited get of the initial load ends and fetch_and_parse_telemetry
\* returns: publish if the result is truthy, then enter the loop and run to
\* the get of its first iteration.
InitialLoadReturns ==
    /\ pc = "fetch"
    /\ phase = "startup"
    /\ \E o \in FetchOutcomes, fetch_ms \in LatenciesMs, parse_ms \in LatenciesMs :
         LET r == fetch_and_parse_telemetry(o, metrics, fetch_ms, parse_ms)
         IN  /\ ~r.raised
             /\ last_fetch' = o
             /\ IF InitialLoadPublishes(r.ret)
                THEN LET s == _swap_data(heap, current_data, r.metrics, r.ret.value, Now)
                     IN  /\ heap' = Collect(s.heap, Roots(s.current_data, held))
                         /\ current_data' = s.current_data
                         /\ swap_lock' = s.swap_lock
                         /\ metrics' = update_metrics(s.metrics, "is_ready", TRUE)
                         /\ publishes' = publishes + 1
                         /\ last_published' = r.ret.value
                         /\ ended' = [cycle |-> cycle, phase |-> phase,
                                      result |-> "published"]
                ELSE /\ metrics' = r.metrics
                     /\ ended' = [cycle |-> cycle, phase |-> phase,
                                  result |-> IF r.ret = None THEN "returned_none"
                                             ELSE "skipped"]
                     /\ UNCHANGED <<heap, current_data, swap_lock, publishes,
                                    last_published>>
             /\ failed_cycles' = failed_cycles + (IF AttemptFailed(o) THEN 1 ELSE 0)
    /\ phase' = "loop"
    /\ pc' = "fetch"
    /\ attempt' = 0
    /\ cycle' = cycle + 1
    /\ waited' = 0
    /\ response' = NoResponse
    /\ UNCHANGED parser_vars
    /\ UNCHANGED <<sleeping_for, shut_down, reader_vars>>

\* The awaited get of a loop iteration ends and fetch_and_parse_telemetry
\* returns: publish and count the success unless the result is None, then
\* sleep the interval.
LoopCycleReturns ==
    /\ pc = "fetch"
    /\ phase = "loop"
    /\ \E o \in FetchOutcomes, fetch_ms \in LatenciesMs, parse_ms \in LatenciesMs :
         LET r == fetch_and_parse_telemetry(o, metrics, fetch_ms, parse_ms)
         IN  /\ ~r.raised
             /\ last_fetch' = o
             /\ IF LoopPublishes(r.ret)
                THEN LET s == _swap_data(heap, current_data, r.metrics, r.ret.value, Now)
                     IN  /\ heap' = Collect(s.heap, Roots(s.current_data, held))
                         /\ current_data' = s.current_data
                         /\ swap_lock' = s.swap_lock
                         /\ metrics' = update_metrics(s.metrics, "ingestion_success_total",
                                                      s.metrics.ingestion_success_total + 1)
                         /\ publishes' = publishes + 1
                         /\ last_published' = r.ret.value
                         /\ ended' = [cycle |-> cycle, phase |-> phase,
                                      result |-> "published"]
                ELSE /\ metrics' = r.metrics
                     /\ ended' = [cycle |-> cycle, phase |-> phase,
                                  result |-> "returned_none"]
                     /\ UNCHANGED <<heap, current_data, swap_lock, publishes,
                                    last_published>>
             /\ failed_cycles' = failed_cycles + (IF AttemptFailed(o) THEN 1 ELSE 0)
    /\ pc' = "sleep"
    /\ sleeping_for' = INGESTION_INTERVAL_SECONDS
    /\ response' = NoResponse
    /\ UNCHANGED parser_vars
    /\ UNCHANGED <<phase, attempt, shut_down, reader_vars, cycle, waited>>

\* The backoff sleep of the wrapper ends: the wrapper calls the function
\* again, up to its get.
BackoffElapses ==
    /\ pc = "backoff"
    /\ pc' = "fetch"
    /\ sleeping_for' = 0
    /\ waited' = waited + sleeping_for
    /\ response' = NoResponse
    /\ UNCHANGED parser_vars
    /\ UNCHANGED <<store_vars, phase, attempt, shut_down, reader_vars, cycle,
                   last_fetch, ended, failed_cycles, publishes, last_published>>

\* The interval sleep ends: the next iteration starts a new cycle.
IntervalElapses ==
    /\ pc = "sleep"
    /\ cycle < MaxCycles
    /\ pc' = "fetch"
    /\ attempt' = 0
    /\ sleeping_for' = 0
    /\ cycle' = cycle + 1
    /\ waited' = 0
    /\ response' = NoResponse
    /\ UNCHANGED parser_vars
    /\ UNCHANGED <<store_vars, phase, shut_down, reader_vars, last_fetch, ended,
                   failed_cycles, publishes, last_published>>

\* Variant of on_cancel for a wrapper that catches the CancelledError of
\* its get like any failure (`except BaseException`) and goes on to its
\* backoff sleep.
on_cancel_swallowed(p) ==
    IF p = "fetch" THEN "backoff"
    ELSE IF p \in {"backoff", "sleep"} THEN "cancelled" ELSE p

\* task.cancel(): CancelledError is thrown into the task at the await it is
\* suspended in; it is no Exception, so neither the wrapper nor the loop's
\* handler catches it and the task ends.  A task that has ended stays as it
\* is.
on_cancel(p) == IF p \in {"fetch", "backoff", "sleep"} THEN "cancelled" ELSE p

\* shutdown_event: cancel the task (and close the client).
shutdown_event ==
    /\ pc # "not_started"
    /\ ~shut_down
    /\ shut_down' = TRUE
    /\ pc' = on_cancel(pc)
    /\ sleeping_for' = 0
    /\ response' = NoResponse
    /\ UNCHANGED parser_vars
    /\ UNCHANGED <<store_vars, phase, attempt, reader_vars, cycle, last_fetch,
                   ended, failed_cycles, publishes, last_published, waited>>

\* ------------------------------------------------------------------------
\* API handlers
\* ------------------------------------------------------------------------
Serving == pc # "not_started" /\ ~shut_down

\* Variant of health_check that answers 200 whatever is_ready is.
health_check_always_ok ==
    /\ Serving
    /\ response' = [endpoint |-> "health", status |-> 200]
    /\ UNCHANGED parser_vars
    /\ UNCHANGED <<store_vars, worker_vars, shut_down, reader_vars>>

health_check ==
    /\ Serving
    /\ response' = IF ~metrics.is_ready
                   THEN [endpoint |-> "health", status |-> 503]
                   ELSE [endpoint |-> "health", status |-> 200]
    /\ UNCHANGED parser_vars
    /\ UNCHANGED <<store_vars, worker_vars, shut_down, reader_vars>>

\* The exposition lines, as name/value pairs.
PrometheusOutput(m) ==
    <<<<"aggregator_ingestion_success_total", m.ingestion_success_total>>,
      <<"aggregator_ingestion_failure_total", m.ingestion_failure_total>>,
      <<"aggregator_ingestion_latency_ms", m.last_ingestion_latency_ms>>,
      <<"aggregator_parse_latency_ms", m.last_parse_latency_ms>>,
      <<"aggregator_last_successful_ingestion_timestamp",
        m.last_successful_ingestion_timestamp>>>>

prometheus_metrics ==
    /\ Serving
    /\ metrics.api_query_count < MaxQueries
    /\ metrics' = update_metrics(metrics, "api_query_count", metrics.api_query_count + 1)
    /\ response' = [endpoint |-> "metrics", status |-> 200,
                    body |-> PrometheusOutput(metrics)]
    /\ UNCHANGED parser_vars
    /\ UNCHANGED <<heap, current_data, swap_lock, worker_vars, shut_down,
                   reader_vars>>

\* list_metrics returns the dict object itself; the caller holds it from
\* then on.
list_metrics ==
    /\ Serving
    /\ held' = get_data(current_data)
    /\ held_copy' = heap[get_data(current_data)]
    /\ heap' = Collect(heap, Roots(current_data, held'))
    /\ response' = [endpoint |-> "ListMetrics", status |-> 200,
                    body |-> heap[get_data(current_data)]]
    /\ UNCHANGED parser_vars
    /\ UNCHANGED <<current_data, metrics, swap_lock, worker_vars, shut_down>>

\* The text of the 404 response of get_metric.
MetricNotFound == <<"Metric", Space, "not", Space, "found">>

\* dict.get(key, default)
DictGet(d, key, default) == IF key \in DOMAIN d THEN d[key] ELSE default

get_metric ==
    /\ Serving
    /\ \E switch_id \in SwitchIds, metric_id \in MetricIds :
         LET data == heap[get_data(current_data)]
             switch == DictGet(data, switch_id, EmptyDict)
         IN  response' =
                 IF metric_id \notin DOMAIN switch
                 THEN [endpoint |-> "GetMetric", status |-> 404,
                       request |-> <<switch_id, metric_id>>,
                       body |-> MetricNotFound]
                 ELSE [endpoint |-> "GetMetric", status |-> 200,
                       request |-> <<switch_id, metric_id>>,
                       body |-> [switch_id |-> switch_id, metric_id |-> metric_id,
                                 value |-> switch[metric_id]]]
    /\ UNCHANGED parser_vars
    /\ UNCHANGED <<store_vars, worker_vars, shut_down, reader_vars>>

Next ==
    \/ startup_event
    \/ FetchRaises
    \/ InitialLoadReturns
    \/ LoopCycleReturns
    \/ BackoffElapses
    \/ IntervalElapses
    \/ shutdown_event
    \/ health_check
    \/ prometheus_metrics
    \/ list_metrics
    \/ get_metric

Spec == Init /\ [][Next]_vars

\* The event loop resumes the task whenever the await it waits in is over:
\* a get ends within the client's timeout, a sleep when its delay is over.
FetchCompletes == FetchRaises \/ InitialLoadReturns \/ LoopCycleReturns

LiveSpec ==
    /\ Spec
    /\ WF_vars(startup_event)
    /\ WF_vars(FetchCompletes)
    /\ WF_vars(BackoffElapses)
    /\ WF_vars(IntervalElapses)

\* ------------------------------------------------------------------------
\* parse_csv_data called on its own, on any text
\* ------------------------------------------------------------------------
ParseInit ==
    /\ ModuleLoaded
    /\ parse_input \in Inputs
    /\ parse_output = NotCalled

ParseCall ==
    /\ parse_output.kind = "not_called"
    /\ parse_output' = parse_csv_data(parse_input)
    /\ UNCHANGED <<store_vars, worker_vars, shut_down, reader_vars, response,
                   parse_input>>

ParseSpec == ParseInit /\ [][ParseCall]_vars

\* ------------------------------------------------------------------------
\* Properties
\* ------------------------------------------------------------------------

\* A step in which an awaited get ended (and the code after it ran).
FetchStep ==
    /\ pc = "fetch"
    /\ pc' \in {"backoff", "sleep", "dead"} \/ cycle' # cycle

\* A step that ended a cycle.
CycleEndStep == ended' # ended

FailedResults == {"raised", "returned_none"}

\* C1: get_data() returns the initial empty mapping until the first publish
\* and from then on exactly the snapshot of the latest publish, whole; and
\* the object a reader got from get_data() earlier still has the contents
\* it had when the reader got it.
C1_SwapIsAtomic ==
    /\ heap[get_data(current_data)] =
           (IF publishes = 0 THEN EmptyDict ELSE last_published)
    /\ held # 0 => heap[held] = held_copy

\* A reader holds a first, non-empty snapshot while a second, different one
\* is current.
C1_Witness ==
    /\ publishes >= 2
    /\ held # 0
    /\ held # current_data
    /\ held_copy # EmptyDict
    /\ heap[current_data] # EmptyDict
    /\ heap[current_data] # held_copy

\* C2: whenever the current snapshot is replaced, the fetch of that step
\* was a 2xx response whose body parse_csv_data accepted, and the new
\* current snapshot is the mapping it returned.
C2_PublishOnlyValidated ==
    [][current_data' # current_data \/ heap'[current_data'] # heap[current_data]
          => /\ last_fetch'.kind = "ok"
             /\ parse_csv_data(last_fetch'.text).kind = "dict"
             /\ heap'[current_data'] = parse_csv_data(last_fetch'.text).value]_vars

\* A publish that follows at least one failed cycle.
C2_Witness ==
    /\ ended.result = "published"
    /\ failed_cycles >= 1
    /\ heap[current_data] # EmptyDict

\* C3: a step that ends a cycle whose last attempt failed (network failure
\* with the retries used up, or a parse error) leaves the current snapshot
\* as it was.
C3_FailedCycleKeepsSnapshot ==
    [][CycleEndStep /\ AttemptFailed(last_fetch')
          => /\ current_data' = current_data
             /\ heap'[current_data'] = heap[current_data]]_vars

\* A loop cycle has failed while a non-empty snapshot was current.
C3_Witness ==
    /\ ended.phase = "loop"
    /\ ended.result \in FailedResults
    /\ publishes >= 1
    /\ heap[current_data] = last_published
    /\ last_published # EmptyDict

\* C4 (as claimed): once a snapshot has been published, is_ready is true.
C4_ReadyAfterAnyPublish == publishes > 0 => metrics.is_ready

\* C5: no step takes is_ready from true back to false.
C5_ReadyNeverReverts == [][metrics.is_ready => metrics'.is_ready]_vars

\* Ready, and a later loop cycle has failed.
C5_Witness ==
    /\ metrics.is_ready
    /\ ended.phase = "loop"
    /\ ended.result \in FailedResults

\* C6 (as claimed): when the initial load got a mapping from the parser,
\* the empty one included, it was published and is_ready is true.
C6_StartupSuccessPublishes ==
    ended.phase = "startup" /\ ended.result \in {"published", "skipped"}
        => metrics.is_ready /\ publishes >= 1

\* C7 (as claimed): when the initial load failed, the worker is not ready
\* and is in the loop.
C7_StartupFailureEntersLoop ==
    ended.phase = "startup" /\ ended.result \in FailedResults
        => ~metrics.is_ready /\ phase = "loop" /\ pc # "dead"

\* C8: in the loop the task never ends by an exception, and after a failed
\* loop cycle the next cycle is started, unless the task is cancelled (or
\* the run's bound on cycles is reached).
C8_LoopSurvivesFailures ==
    /\ [](phase = "loop" => pc # "dead")
    /\ \A c \in 2..(MaxCycles - 1) :
          (cycle = c /\ ended.cycle = c /\ ended.result \in FailedResults)
              ~> (cycle = c + 1 \/ shut_down)

\* Cycle 3 is under way after loop cycle 2 failed by exhausted retries.
C8_Witness ==
    /\ cycle = 3
    /\ pc = "fetch"
    /\ ended.cycle = 2
    /\ ended.result = "raised"

\* C9 (as claimed): ingestion_failure_total is the number of failed cycles.
C9_FailureCounterCountsFailedCycles ==
    metrics.ingestion_failure_total = failed_cycles

\* C10: a get whose body the parser rejects ends the cycle in that very
\* step, with no backoff sleep and no further attempt counted; and the
\* wrapper goes to a backoff sleep only after a network-class failure.
C10_ParseErrorNotRetried ==
    [][FetchStep
          => /\ (last_fetch'.kind = "ok"
                   /\ parse_csv_data(last_fetch'.text).kind = "ValueError")
                 => /\ ended'.cycle = cycle
                    /\ pc' # "backoff"
                    /\ attempt' \in {attempt, 0}
             /\ pc' = "backoff" => last_fetch'.kind \in NetworkKinds]_vars

\* A parse error ended a cycle on its second attempt, without a third.
C10_Witness ==
    /\ pc = "sleep"
    /\ ended.result = "returned_none"
    /\ last_fetch.kind = "ok"
    /\ attempt = 1

\* C11 (as claimed): when the first 2 attempts of a cycle failed by the
\* network and the third get brings a payload the parser accepts, the cycle
\* ends in that step with its snapshot published, and the backoff slept in
\* the cycle is b + 2b.
C11_ThirdAttemptPublishes ==
    [][(/\ FetchStep
        /\ attempt = 2
        /\ last_fetch'.kind = "ok"
        /\ parse_csv_data(last_fetch'.text).kind = "dict")
          => /\ ended'.cycle = cycle
             /\ ended'.result = "published"
             /\ waited = backoff_in_seconds + 2 * backoff_in_seconds
             /\ heap'[current_data'] = parse_csv_data(last_fetch'.text).value]_vars

\* C12 (as claimed): ListMetrics answers 503 while nothing has been
\* published and the full current snapshot afterwards.
C12_ListMetricsUnavailableBeforePublish ==
    response.endpoint = "ListMetrics"
        => IF publishes = 0
           THEN response.status = 503
           ELSE response.status = 200 /\ response.body = heap[current_data]

\* C13: a health request answers 200 if is_ready was true and 503 if it was
\* false, and leaves the metrics and the snapshot as they were.
C13_HealthFollowsReady ==
    [][response'.endpoint = "health"
          => /\ response'.status = (IF metrics.is_ready THEN 200 ELSE 503)
             /\ metrics' = metrics
             /\ current_data' = current_data
             /\ heap' = heap]_vars

\* Health answered 200 on a ready store that holds a snapshot.
C13_Witness ==
    /\ response.endpoint = "health"
    /\ response.status = 200
    /\ metrics.is_ready
    /\ heap[current_data] # EmptyDict

\* The names among `names` that occur in a response text.
NamesListed(body, names) ==
    {n \in names : \E i \in 1..Len(body) : i + Len(n) - 1 <= Len(body)
                                           /\ SubSeq(body, i, i + Len(n) - 1) = n}

\* C14 (as claimed): GetMetric answers 200 with the stored value when the
\* switch has the metric, and 404 otherwise; when the switch is present
\* without the metric, the 404 text lists exactly that switch's metric
\* names.
C14_GetMetricNotFoundListsNames ==
    response.endpoint = "GetMetric"
        => LET data == heap[current_data]
               sw == response.request[1]
               me == response.request[2]
           IN  IF sw \in DOMAIN data /\ me \in DOMAIN data[sw]
               THEN /\ response.status = 200
                    /\ response.body.value = data[sw][me]
               ELSE /\ response.status = 404
                    /\ sw \in DOMAIN data
                         => NamesListed(response.body, DOMAIN data[sw]) = DOMAIN data[sw]

\* C15: once shutdown has cancelled the task, the task has ended, and
\* neither the cancelling step nor any later step publishes, changes
\* is_ready or changes a counter.
C15_CancelEndsWorker ==
    [][shut_down'
          => /\ pc' \in {"cancelled", "dead"}
             /\ UNCHANGED <<heap, current_data, metrics, publishes>>]_vars

\* The task was cancelled in the middle of a cycle, after a failed attempt,
\* with a snapshot published earlier.
C15_Witness ==
    /\ shut_down
    /\ pc = "cancelled"
    /\ attempt >= 1
    /\ ended.cycle < cycle
    /\ publishes >= 1

\* The rows csv.reader yields on a text.
RowsOf(text) == CsvReader(Normalize(text))

HasSwitchId(header) == \E i \in 1..Len(header) : header[i] = <<SwitchIdColumn>>

\* A text that is not blank and has a row after the header whose field
\* count is not the header's.  (A text of whitespace only has no rows: the
\* parser returns on it before it reads any.)
HasBadRow(text) ==
    /\ Strip(text) # <<>>
    /\ \E i \in 2..Len(RowsOf(text)) : Len(RowsOf(text)[i]) # Len(RowsOf(text)[1])

\* A text that is not blank and has a header row and no other row.
HeaderOnly(text) ==
    /\ Strip(text) # <<>>
    /\ Len(RowsOf(text)) = 1

\* C16: parse_csv_data raises, and so returns no mapping, on every text
\* with a data row whose field count differs from the header's.
C16_BadRowAbortsParse ==
    parse_output.kind # "not_called" /\ HasBadRow(parse_input)
        => parse_output.kind = "ValueError"

\* The parser raised on a text whose header has switch_id, whose first data
\* row is well-formed and whose second is not.
C16_Witness ==
    /\ parse_output.kind = "ValueError"
    /\ Strip(parse_input) # <<>>
    /\ Len(RowsOf(parse_input)) >= 3
    /\ HasSwitchId(RowsOf(parse_input)[1])
    /\ Len(RowsOf(parse_input)[2]) = Len(RowsOf(parse_input)[1])
    /\ Len(RowsOf(parse_input)[3]) # Len(RowsOf(parse_input)[1])

\* C17 (as claimed): parse_csv_data returns the empty mapping on every
\* empty, whitespace-only or header-only text.
C17_EmptyOrHeaderOnlyGivesEmpty ==
    /\ parse_output.kind # "not_called"
    /\ Strip(parse_input) = <<>> \/ HeaderOnly(parse_input)
    => parse_output.kind = "dict" /\ parse_output.value = EmptyDict

\* C17 (amended): parse_csv_data returns the empty mapping on every empty
\* or whitespace-only text and on every header-only text whose header has a
\* switch_id column.
C17_EmptyOrIdHeaderOnlyGivesEmpty ==
    /\ parse_output.kind # "not_called"
    /\ \/ Strip(parse_input) = <<>>
       \/ HeaderOnly(parse_input) /\ HasSwitchId(RowsOf(parse_input)[1])
    => parse_output.kind = "dict" /\ parse_output.value = EmptyDict

\* The parser returned on a header-only text of several columns.
C17_Witness ==
    /\ parse_output.kind = "dict"
    /\ HeaderOnly(parse_input)
    /\ Len(RowsOf(parse_input)[1]) >= 2

\* C18: the delay slept before attempt k (k >= 2) of a cycle is
\* base * 2^(k-2), whatever the cycle, and every new cycle starts again at
\* its first attempt.  `attempt` counts the failed attempts of the cycle, so
\* the sleep entered with attempt' = k - 1 precedes attempt k.
C18_BackoffDoublesPerCycle ==
    [][/\ (pc = "fetch" /\ pc' = "backoff")
            => /\ attempt' = attempt + 1
               /\ sleeping_for' = backoff_in_seconds * 2^((attempt' + 1) - 2)
       /\ (pc = "backoff" /\ pc' = "fetch")
            => /\ attempt' = attempt
               /\ waited' = waited + sleeping_for
       /\ cycle' # cycle => attempt' = 0 /\ waited' = 0]_vars

\* The worker sleeps before the fourth attempt of a cycle that is not the
\* first one, having slept base and 2*base before.
C18_Witness ==
    /\ pc = "backoff"
    /\ cycle >= 2
    /\ attempt = 3
    /\ waited = backoff_in_seconds + 2 * backoff_in_seconds
    /\ sleeping_for = 4 * backoff_in_seconds

\* C19: the attempts of one cycle, the first one included, never number
\* more than `retries`; a cycle whose attempts all fail ends as a failure
\* with the attempt that makes `retries` of them.
C19_AttemptsWithinMaximum ==
    [][/\ pc = "fetch" => attempt + 1 <= retries
       /\ (FetchStep /\ AttemptFailed(last_fetch') /\ attempt + 1 = retries)
            => CycleEndStep /\ ended'.result \in FailedResults]_vars

\* The cycle in progress, if any, is the one after the last ended cycle, and
\* nothing is suspended inside the swap_lock critical section.
OneCycleInProgress ==
    /\ pc \in {"fetch", "backoff"} => cycle = ended.cycle + 1
    /\ pc = "sleep" => cycle = ended.cycle
    /\ swap_lock = FALSE

Endpoints == {"health", "metrics", "ListMetrics", "GetMetric"}

\* A step of an API handler: it leaves its answer in `response`.
HandlerStep == response'.endpoint \in Endpoints

\* C21: a step of an API handler, whatever the worker has done before it,
\* leaves the store's current reference, the contents of the current
\* snapshot and every field of the metrics structure as they were.
C21_HandlersOnlyRead ==
    [][HandlerStep
         => /\ current_data' = current_data
            /\ heap'[current_data'] = heap[current_data]
            /\ metrics' = metrics]_vars

\* C22: in every state ingestion_success_total equals the number of
\* publishes performed since start, the publish of the startup cycle
\* included.
C22_SuccessCounterCountsPublishes ==
    metrics.ingestion_success_total = publishes

====
